---- MODULE Spec2Model ----
(***************************************************************************)
(* DTrackSDK compatibility wrappers (DTrack, DTrack2, DTracklib) on top of *)
(* the unified DTrackSDK object.                                           *)
(*                                                                         *)
(* The wrappers are translated from Compatibility/DTrack/DTrack.cpp and    *)
(* Compatibility/DTrackLib/DTracklib.cpp.  The DTrackSDK object they own   *)
(* (data receive + frame parser, command exchange) has no source in this   *)
(* tree; its operators are modelled from the design description and are    *)
(* the ones whose names start with SDK.                                    *)
(*                                                                         *)
(* Numbers: quality and location are doubles in the code; the model uses   *)
(* integers (quality in hundredths, -1 = not tracked).                     *)
(***************************************************************************)
EXTENDS Integers, Sequences, FiniteSets, TLC

VARIABLES
    kind,            \* which wrapper class the object is
    valid,           \* sdk->isLocalDataPortValid(), fixed at construction
    sdkFrame,        \* the SDK's current frame: entity type -> sequence of records
    lastDataError,   \* the SDK's data-channel last-error register
    act_num,         \* wrapper: act_num_body, act_num_flystick, ... (entity type -> int)
    act,             \* wrapper: act_body, act_flystick, ... (entity type -> vector)
    ret,             \* the last wrapper call on the data side and what it returned
    exch,            \* command channel: state of the exchange
    outstanding,     \* command channel: requests sent and not yet resolved
    msgQueue,        \* command channel: queued asynchronous messages
    curMsg,          \* the message made current by the last successful getMessage()
    lastServerError, \* the SDK's command-channel last-error register
    lastDTrackError, \* the SDK's last device-side error code (0 = none)
    cmd,             \* the last wrapper call on the command side and what it returned
    caller,          \* the caller's variables an output parameter was last written to
    remote,          \* DTrack: remoteCameras, remoteTracking, remoteSending
    rc,              \* the last remote-control call (DTrack cmd_*, DTracklib send)
    cli,             \* DTrack2CLI: the run of the command line tool
    fb,              \* example_flystick_feedback: sentFeedback and the commands sent
    told,            \* what the remote-control calls have told DTrack so far
    ex               \* the examples' main(): where the run stands and what it did

dataVars == <<kind, valid, sdkFrame, lastDataError, act_num, act, ret>>
cmdVars  == <<exch, outstanding, msgQueue, curMsg, lastServerError, lastDTrackError, cmd>>
appVars  == <<caller, remote, rc, cli, fb, told, ex>>
vars     == <<kind, valid, sdkFrame, lastDataError, act_num, act, ret,
              exch, outstanding, msgQueue, curMsg, lastServerError, lastDTrackError, cmd,
              caller, remote, rc, cli, fb, told, ex>>

(***************************************************************************)
(* Bounds of the model.                                                    *)
(***************************************************************************)
\* largest number of entities of one type a datagram declares
MaxNum == 2
\* largest number of asynchronous messages held in the message queue
MaxQueue == 3
\* largest number of lines in a command file or on standard input
MaxLines == 2

\* DTracklib button mask: the largest button count a record of the SDK reports
MaxButtons == 17

\* example_flystick_feedback: at most this many Flysticks in a frame
MaxFly == 2

\* example_flystick_feedback: commands counted per press up to this number
MaxSends == 2

Wrappers == {"DTrack", "DTrack2", "DTracklib"}

\* body, flystick, meatool, hand (DTracklib: glove), marker
Types == {"body", "flystick", "meatool", "hand", "marker"}

\* DTrackSDK::ERR_NONE, ERR_TIMEOUT, ERR_NET, ERR_PARSE
ERR_NONE    == "ERR_NONE"
ERR_TIMEOUT == "ERR_TIMEOUT"
ERR_NET     == "ERR_NET"
ERR_PARSE   == "ERR_PARSE"

(***************************************************************************)
(* Entity records.  loc stands for the fields every wrapper copies alike   *)
(* (loc[], rot[], lr, nfinger, finger[]) and memset()s to zero in the      *)
(* dummy.  Flysticks and measurement tools also carry their controls       *)
(* (buttons, joystick) in ctl, whose layout depends on the wrapper.        *)
(***************************************************************************)
Rec(i, q, l) == [id |-> i, quality |-> q, loc |-> l]

RecC(i, q, l, c) == [id |-> i, quality |-> q, loc |-> l, ctl |-> c]

\* the entity types with controls
Controlled == {"flystick", "meatool"}

\* array sizes of the wrappers' records
DTRACK_FLYSTICK_MAX_BUTTON == 16
DTRACK_FLYSTICK_MAX_JOYSTICK == 8
DTRACK_MEATOOL_MAX_BUTTON == 1
DTRACK2_FLYSTICK_MAX_BUTTON == 16
DTRACK2_FLYSTICK_MAX_JOYSTICK == 8
DTRACK2_MEATOOL_MAX_BUTTON == 1
DTRACKLIB_FLYSTICK_MAX_BUTTON == 16

\* flystick controls: num_button, button[] (as the set of the indices j with
\* button[j] = 1), num_joystick, joystick[]
Ctl(nb, b, nj, j) == [num_button |-> nb, button |-> b, num_joystick |-> nj, joystick |-> j]

\* measurement tool controls: num_button, button[]
MeaCtl(nb, b) == [num_button |-> nb, button |-> b]

\* a joystick array whose first two values are a and b
Joystick(a, b) ==
    [j \in 1..DTRACK_FLYSTICK_MAX_JOYSTICK |-> IF j = 1 THEN a ELSE IF j = 2 THEN b ELSE 0]

\* the controls in the SDK's record of an entity of type t: released ("idle"), or
\* buttons 0 and 3 of six pressed and the joystick moved ("pressed")
SDKControls(t, c) ==
    IF t = "flystick"
    THEN IF c = "pressed" THEN Ctl(6, {0, 3}, 2, Joystick(50, -50))
         ELSE Ctl(6, {}, 2, Joystick(0, 0))
    ELSE IF c = "pressed" THEN MeaCtl(1, {0}) ELSE MeaCtl(1, {})

\* memset(&dummy, 0, sizeof(...))
ZeroRec == Rec(0, 0, 0)

\* quality values on the wire: -1 (not tracked) and 0.90
Qualities == {-1, 90}

\* the group of entity number i (0-based) in a datagram whose entities have quality q;
\* a not tracked entity carries zero in its other fields
Group(i, q) == Rec(i, q, IF q = -1 THEN 0 ELSE 100 + i)

\* the first n groups
Groups(n, q) == [i \in 1..n |-> Group(i - 1, q)]

(***************************************************************************)
(* Count profiles of the datagrams: one focus type with its own count      *)
(* while the other types are absent, and every type present MaxNum times.  *)
(***************************************************************************)
Profiles ==
    {[t \in Types |-> IF t = f THEN n ELSE 0] : f \in Types, n \in 0..MaxNum}
        \cup {[t \in Types |-> MaxNum]}

\* A datagram: per entity type the declared number of groups N and the groups
\* that are really there ("6d 2 [0 0.9]" declares 2 bodies and supplies 1)
Datagram(p, q, short) ==
    [t \in Types |-> [n |-> p[t],
                      groups |-> Groups(IF t = short /\ p[t] > 0 THEN p[t] - 1 ELSE p[t], q)]]

\* the datagram d with the controls c in its flystick and measurement tool groups
WithControls(d, c) ==
    [t \in Types |->
        IF t \in Controlled
        THEN [n |-> d[t].n,
              groups |-> [i \in 1..Len(d[t].groups) |->
                            RecC(d[t].groups[i].id, d[t].groups[i].quality,
                                 d[t].groups[i].loc, SDKControls(t, c))]]
        ELSE d[t]]

Datagrams ==
    {WithControls(Datagram(p, q, s), "idle") :
        p \in Profiles, q \in Qualities, s \in {"none", "body", "marker"}}
      \cup {WithControls(Datagram(p, 90, "none"), "pressed") :
               p \in {pp \in Profiles : pp["flystick"] > 0 \/ pp["meatool"] > 0}}

\* what the transport hands to one receive(): a datagram, a timeout or a socket
\* error on a bound data port; "nosocket" when the data port could not be bound
Events(isValid) ==
    IF isValid
    THEN [what : {"timeout", "neterror"}, data : {<<>>}]
             \cup [what : {"datagram"}, data : Datagrams]
    ELSE [what : {"nosocket"}, data : {<<>>}]

EmptyFrame == [t \in Types |-> <<>>]

(***************************************************************************)
(* DTrackSDK, data side                                                    *)
(***************************************************************************)

\* Frame parser: the whole datagram fails when a line supplies fewer
\* groups than it declares; otherwise each collection holds the N declared groups
SDKParseOk(d) == \A t \in Types : Len(d[t].groups) >= d[t].n

SDKParse(d) == [t \in Types |-> SubSeq(d[t].groups, 1, d[t].n)]

\* DTrackSDK::receive(): [ok, frame, err] for the event, from the current frame.
\* A failure sets the register and keeps the stored frame; success replaces it whole
SDKreceive(isValid, frame, ev) ==
    IF ~isValid \/ ev.what = "nosocket" THEN [ok |-> FALSE, frame |-> frame, err |-> ERR_NET]
    ELSE IF ev.what = "timeout" THEN [ok |-> FALSE, frame |-> frame, err |-> ERR_TIMEOUT]
    ELSE IF ev.what = "neterror" THEN [ok |-> FALSE, frame |-> frame, err |-> ERR_NET]
    ELSE IF ~SDKParseOk(ev.data) THEN [ok |-> FALSE, frame |-> frame, err |-> ERR_PARSE]
    ELSE [ok |-> TRUE, frame |-> SDKParse(ev.data), err |-> ERR_NONE]

(***************************************************************************)
(* The wrappers, data side                                                 *)
(***************************************************************************)

\* what an int member holds that no constructor assigned: any value
Uninitialized ==
    {[t \in Types |-> IF t = f THEN g ELSE 0] : f \in Types, g \in {-1, 0, MaxNum + 1}}

\* what reading a vector element outside its bounds can produce
UBRecs == {Rec(0, 0, 0), Rec(-1, 90, -1)}

\* std::vector::operator[] : the element, or undefined behaviour outside the bounds.
\* Result: the set of [rec, oob] the call can give (vector index i is 0-based)
VecAt(v, i) ==
    IF (i + 1) \in DOMAIN v THEN {[rec |-> v[i + 1], oob |-> FALSE]}
    ELSE {[rec |-> r, oob |-> TRUE] : r \in UBRecs}

\* the copy loops of receive(): act_num_X = sdk->getNumX()
CopyNum(frame) == [t \in Types |-> Len(frame[t])]

\* (float)x: the values of the model are integers float holds exactly
Float(x) == x

\* the smaller of two numbers
Min(a, b) == IF a < b THEN a ELSE b

\* the number whose bits are the members of S
RECURSIVE Bits(_)
Bits(S) ==
    IF S = {} THEN 0
    ELSE LET j == CHOOSE x \in S : TRUE IN 2 ^ j + Bits(S \ {j})

\* DTrack::receive, the controls: num_button, button[0 .. MAX_BUTTON-1],
\* num_joystick, joystick[0 .. MAX_JOYSTICK-1]
DTrack_CopyCtl(t, c) ==
    IF t = "flystick"
    THEN Ctl(c.num_button, {j \in c.button : j < DTRACK_FLYSTICK_MAX_BUTTON}, c.num_joystick,
             [j \in 1..DTRACK_FLYSTICK_MAX_JOYSTICK |-> Float(c.joystick[j])])
    ELSE MeaCtl(c.num_button, {j \in c.button : j < DTRACK_MEATOOL_MAX_BUTTON})

\* DTrack2::receive, the controls
DTrack2_CopyCtl(t, c) ==
    IF t = "flystick"
    THEN Ctl(c.num_button, {j \in c.button : j < DTRACK2_FLYSTICK_MAX_BUTTON}, c.num_joystick,
             [j \in 1..DTRACK2_FLYSTICK_MAX_JOYSTICK |-> Float(c.joystick[j])])
    ELSE MeaCtl(c.num_button, {j \in c.button : j < DTRACK2_MEATOOL_MAX_BUTTON})

\* DTracklib::receive, the controls: bt = 0; for j < min(num_button, MAX_BUTTON):
\* if (button[j] == 1) bt |= (button[j] << j);  no other control field exists
DTracklib_CopyCtl_NoClamp(t, c) ==
    [bt |-> Bits({j \in c.button : j < c.num_button})]

DTracklib_CopyCtl(t, c) ==
    [bt |-> Bits({j \in c.button : j < Min(c.num_button, DTRACKLIB_FLYSTICK_MAX_BUTTON)})]

CopyCtl(k, t, c) ==
    CASE k = "DTrack"    -> DTrack_CopyCtl(t, c)
      [] k = "DTrack2"   -> DTrack2_CopyCtl(t, c)
      [] k = "DTracklib" -> DTracklib_CopyCtl(t, c)

\* the controls of a record that memset() filled with zero
ZeroCtl(k, t) ==
    IF k = "DTracklib" THEN [bt |-> 0]
    ELSE IF t = "flystick" THEN Ctl(0, {}, 0, Joystick(0, 0))
    ELSE MeaCtl(0, {})

\* the dummy record of wrapper k for type t after memset(), with id i and quality q
Dummy(k, t, i, q) ==
    IF t \in Controlled THEN RecC(i, q, 0, ZeroCtl(k, t)) ELSE Rec(i, q, 0)

\* the field by field copy of one record
CopyRec_DropsJoystick(k, t, r) ==
    IF t \in Controlled
    THEN RecC(r.id, Float(r.quality), Float(r.loc),
              IF "joystick" \in DOMAIN r.ctl
              THEN CopyCtl(k, t, [r.ctl EXCEPT !.joystick = Joystick(0, 0)])
              ELSE CopyCtl(k, t, r.ctl))
    ELSE Rec(r.id, Float(r.quality), Float(r.loc))

CopyRec(k, t, r) ==
    IF t \in Controlled
    THEN RecC(r.id, Float(r.quality), Float(r.loc), CopyCtl(k, t, r.ctl))
    ELSE Rec(r.id, Float(r.quality), Float(r.loc))

\* the copy loops of receive(): act_X.resize(act_num_X) and the field by field copy
CopyRecs(frame) ==
    [t \in Types |-> [i \in 1..Len(frame[t]) |-> CopyRec(kind, t, frame[t][i])]]

\* receive(): "if (!sdk->receive()) return false;" leaves the members alone,
\* otherwise every count is assigned and every vector resized and filled
StoredNum_ResetOnFailure(ok, old, frame) ==
    IF ok THEN CopyNum(frame) ELSE [t \in Types |-> 0]

StoredNum(ok, old, frame) == IF ok THEN CopyNum(frame) ELSE old

StoredRecs(ok, old, frame) == IF ok THEN CopyRecs(frame) ELSE old

NoEvent == [what |-> "none", data |-> <<>>]

\* the call record kept in ret: the call, its arguments, what the transport handed
\* to it and what it returned
Call(o, t, i, r, b, k, e) ==
    [op |-> o, type |-> t, id |-> i, rec |-> r, oob |-> b, ok |-> k, ev |-> e]

NoCall == Call("none", "none", 0, ZeroRec, FALSE, FALSE, NoEvent)

\* receive() of a wrapper, given whether it reaches sdk->receive()
Receive(called, ev) ==
    LET r  == SDKreceive(valid, sdkFrame, ev)
        ok == called /\ r.ok
    IN  /\ sdkFrame' = (IF called THEN r.frame ELSE sdkFrame)
        /\ lastDataError' = (IF called THEN r.err ELSE lastDataError)
        /\ act_num' = StoredNum(ok, act_num, r.frame)
        /\ act' = StoredRecs(ok, act, r.frame)
        /\ ret' = Call("receive", "none", 0, ZeroRec, FALSE, ok, ev)
        /\ UNCHANGED <<kind, valid>>
        /\ UNCHANGED <<cmdVars, appVars>>

\* DTrack::receive: if (!sdk->receive()) return false; then the copies
DTrack_CallsSDK(isValid) == TRUE

DTrack_receive(ev) ==
    /\ kind = "DTrack"
    /\ Receive(DTrack_CallsSDK(valid), ev)

\* DTrack2::receive: if (!sdk->isLocalDataPortValid()) return false; comes first
DTrack2_CallsSDK(isValid) == isValid

DTrack2_receive(ev) ==
    /\ kind = "DTrack2"
    /\ Receive(DTrack2_CallsSDK(valid), ev)

\* DTracklib::receive
DTracklib_CallsSDK(isValid) == TRUE

DTracklib_receive(ev) ==
    /\ kind = "DTracklib"
    /\ Receive(DTracklib_CallsSDK(valid), ev)

\* timeout() / udperror() / parseerror(), data_timeout() / data_neterror() / data_parseerror()
timeout == lastDataError = ERR_TIMEOUT

udperror == lastDataError = ERR_NET

parseerror_TestsNet == lastDataError = ERR_NET

parseerror == lastDataError = ERR_PARSE

DTrack_get_DummyIdZero(t, id, num, vec) ==
    IF t = "marker"
    THEN IF id >= 0 /\ id < num THEN VecAt(vec, id)
         ELSE {[rec |-> Rec(0, -1, 0), oob |-> FALSE]}
    ELSE IF id < num THEN VecAt(vec, id)
         ELSE {[rec |-> Dummy("DTrack", t, 0, -1), oob |-> FALSE]}

\* DTrack::get_body, get_flystick, get_meatool, get_hand: if (id < act_num_X) return act_X[id];
\* DTrack::get_marker: if (index >= 0 && index < act_num_marker), and dummy.id = 0
DTrack_get(t, id, num, vec) ==
    IF t = "marker"
    THEN IF id >= 0 /\ id < num THEN VecAt(vec, id)
         ELSE {[rec |-> Rec(0, -1, 0), oob |-> FALSE]}
    ELSE IF id < num THEN VecAt(vec, id)
         ELSE {[rec |-> Dummy("DTrack", t, id, -1), oob |-> FALSE]}

\* DTrack2::get_body, get_flystick, get_meatool, get_hand, get_marker
DTrack2_get(t, id, num, vec) ==
    IF t = "marker"
    THEN IF id >= 0 /\ id < num THEN VecAt(vec, id)
         ELSE {[rec |-> Rec(0, -1, 0), oob |-> FALSE]}
    ELSE IF id < num THEN VecAt(vec, id)
         ELSE {[rec |-> Dummy("DTrack2", t, id, -1), oob |-> FALSE]}

\* DTracklib::get_body, get_flystick, get_meatool, get_glove, get_marker:
\* if ((id < 0)||(id >= act_nX)) return the memset() dummy
DTracklib_get(t, id, num, vec) ==
    IF id < 0 \/ id >= num THEN {[rec |-> Dummy("DTracklib", t, 0, 0), oob |-> FALSE]}
    ELSE VecAt(vec, id)

\* the indices the accessors are called with
Ids == (-1)..(MaxNum + 1)

\* an accessor call: nothing but the returned value changes
Get(results, t, id) ==
    /\ \E r \in results : ret' = Call("get", t, id, r.rec, r.oob, TRUE, NoEvent)
    /\ UNCHANGED <<kind, valid, sdkFrame, lastDataError, act_num, act>>
    /\ UNCHANGED <<cmdVars, appVars>>

DTrack_get_X(t, id) ==
    /\ kind = "DTrack"
    /\ Get(DTrack_get(t, id, act_num[t], act[t]), t, id)

DTrack2_get_X(t, id) ==
    /\ kind = "DTrack2"
    /\ Get(DTrack2_get(t, id, act_num[t], act[t]), t, id)

DTracklib_get_X(t, id) ==
    /\ kind = "DTracklib"
    /\ Get(DTracklib_get(t, id, act_num[t], act[t]), t, id)

\* get_num_body() ... get_num_marker()
get_num(t) == act_num[t]

(***************************************************************************)
(* Construction and the data-side specification                            *)
(***************************************************************************)

\* the record kept in cmd: the wrapper call, its arguments, the string handed to
\* sendDTrack2Command, where the call stands, how the exchange ended, what
\* sendDTrack2Command and the wrapper returned, the lines received meanwhile
CmdCall(c, a, s, p, o, r, b, l) ==
    [call |-> c, args |-> a, sent |-> s, phase |-> p, outcome |-> o,
     result |-> r, ret |-> b, lines |-> l]

NoCmd == CmdCall("none", <<>>, "", "none", "none", 0, FALSE, <<>>)

\* the record kept in caller: the call with an output parameter, the value the
\* caller's variable held before the call, the value it holds after, what the call returned
Output(c, b, a, r) == [call |-> c, before |-> b, after |-> a, ret |-> r]

NoOutput == Output("none", "", "", FALSE)

\* the current message before any getMessage() succeeded: empty fields
NoMessage == <<"", "", "", "", "", "", "">>

\* the record kept in rc: the call, its argument(s), what it returned and the
\* commands it handed to sdk->sendCommand, each with the result of that send
RemoteCall(c, a, r, s) == [call |-> c, arg |-> a, ret |-> r, sent |-> s]

NoRemoteCall == RemoteCall("none", <<>>, FALSE, <<>>)

\* DTrack::DTrack: remoteCameras = false; remoteTracking = true; remoteSending = true;
RemoteFlags(c, t, s) == [cameras |-> c, tracking |-> t, sending |-> s]

\* the record kept in cli: how the tool was started ("file": -f <file>, "pipe":
\* commands on standard input, "args": options on the command line), where it
\* stands, the lines of its input, the lines not yet read, the SDK calls made
\* (each with its argument, the reply and the error the tool derived from it),
\* the first error remembered, the status returned
CliRun(m, p, i, r, c, f, st) ==
    [mode |-> m, pc |-> p, input |-> i, rest |-> r, calls |-> c, first |-> f, status |-> st]

NoCli == CliRun("none", "none", <<>>, <<>>, <<>>, 0, 0)

\* the record kept in fb: example_flystick_feedback's global sentFeedback and
\* isRunning, the number n of Flysticks of the frames, the buttons of the last
\* received frame (Flystick id -> set of pressed buttons), the feedback commands
\* sent while it was processed, and per Flystick the number of commands sent
\* since its feedback buttons were last all released
Feedback(s, r, n, fr, c, k) ==
    [sentFeedback |-> s, isRunning |-> r, n |-> n, frame |-> fr, sent |-> c, count |-> k]

NoFeedback == Feedback(FALSE, FALSE, 0, <<>>, <<>>, <<>>)

\* the record kept in told: the last command about the data output ("dtrack 31",
\* "dtrack 32", "dtrack 33 <n>") handed to sendCommand, "" before the first; and
\* whether the calls so far were cmd_cameras, cmd_tracking and cmd_sending_data
\* only, on a valid object, with every send successful
NothingTold == [output |-> "", plain |-> TRUE]

\* the record kept in ex: the example program, where its main() stands, whether
\* the command interface is valid (communicating mode), the loop counter, the
\* receive() calls made and what the last one returned, the start and stop
\* commands sent, whether the start succeeded, and the stop commands sent when
\* the SDK object was deleted (-1 before)
Example(prog, pc, comm, count, received, ok, starts, started, stops, atDelete) ==
    [prog |-> prog, pc |-> pc, comm |-> comm, count |-> count, received |-> received,
     ok |-> ok, starts |-> starts, started |-> started, stops |-> stops,
     atDelete |-> atDelete]

NoExample == Example("none", "none", FALSE, 0, 0, FALSE, 0, FALSE, 0, -1)

\* the caller's side and the remote control right after construction
AppIdle ==
    /\ caller = NoOutput
    /\ remote = RemoteFlags(FALSE, TRUE, TRUE)
    /\ rc = NoRemoteCall
    /\ cli = NoCli
    /\ fb = NoFeedback
    /\ told = NothingTold
    /\ ex = NoExample

\* the command side at rest
CmdIdle ==
    /\ exch = "IDLE"
    /\ outstanding = <<>>
    /\ msgQueue = <<>>
    /\ curMsg = NoMessage
    /\ lastServerError = ERR_NONE
    /\ lastDTrackError = 0
    /\ cmd = NoCmd

\* DTrack::DTrack and DTrack2::DTrack2 assign none of the act_num_X members;
\* DTracklib::DTracklib sets them to 0.  The vectors start empty.
Init ==
    /\ kind \in Wrappers
    /\ valid \in BOOLEAN
    /\ sdkFrame = EmptyFrame
    /\ lastDataError = ERR_NONE
    /\ act_num \in (IF kind = "DTracklib" THEN {[t \in Types |-> 0]} ELSE Uninitialized)
    /\ act = EmptyFrame
    /\ ret = NoCall
    /\ CmdIdle
    /\ AppIdle

Next ==
    \/ \E ev \in Events(valid) : DTrack_receive(ev)
    \/ \E ev \in Events(valid) : DTrack2_receive(ev)
    \/ \E ev \in Events(valid) : DTracklib_receive(ev)
    \/ \E t \in Types, id \in Ids : DTrack_get_X(t, id)
    \/ \E t \in Types, id \in Ids : DTrack2_get_X(t, id)
    \/ \E t \in Types, id \in Ids : DTracklib_get_X(t, id)

Spec == Init /\ [][Next]_vars

(***************************************************************************)
(* Properties of the data side                                             *)
(***************************************************************************)

\* the accessor of the wrapper at hand
WrapperGet(t, id, num, vec) ==
    CASE kind = "DTrack"    -> DTrack_get(t, id, num, vec)
      [] kind = "DTrack2"   -> DTrack2_get(t, id, num, vec)
      [] kind = "DTracklib" -> DTracklib_get(t, id, num, vec)

\* the entity types whose DTrack/DTrack2 accessors test only "id < count"
BodyLike == {"body", "flystick", "meatool", "hand"}

\* C1: a receive() that returns false leaves every stored count and every stored
\* record as it was, so every get_num_X() and get_X(i) answers as before the call
C1_StaleFrameRetained ==
    [][(ret'.op = "receive" /\ ~ret'.ok) =>
          /\ act_num' = act_num
          /\ act' = act
          /\ \A t \in Types : get_num(t)' = get_num(t)
          /\ \A t \in Types, id \in Ids :
                WrapperGet(t, id, act_num'[t], act'[t]) = WrapperGet(t, id, act_num[t], act[t])
      ]_vars

\* a failed receive() of DTrack2 after a frame with bodies had been stored
C1_Witness ==
    /\ kind = "DTrack2"
    /\ ret.op = "receive"
    /\ ~ret.ok
    /\ act_num["body"] = MaxNum
    /\ Len(act["body"]) = MaxNum
    /\ lastDataError = ERR_PARSE

\* C4: DTrack and DTrack2, get_body/get_flystick/get_meatool/get_hand with
\* id >= the current count: the record returned has quality -1, the requested id
\* and zero elsewhere, and the call changes nothing of the wrapper
C4_OutOfRangeFallback ==
    [][(/\ ret'.op = "get"
        /\ kind \in {"DTrack", "DTrack2"}
        /\ ret'.type \in BodyLike
        /\ ret'.id >= act_num[ret'.type]) =>
          /\ ret'.rec = Dummy(kind, ret'.type, ret'.id, -1)
          /\ ~ret'.oob
          /\ UNCHANGED <<kind, valid, sdkFrame, lastDataError, act_num, act>>
      ]_vars

\* get_hand(2) of DTrack on a frame that holds one hand
C4_Witness ==
    /\ kind = "DTrack"
    /\ ret.op = "get"
    /\ ret.type = "hand"
    /\ ret.id = 2
    /\ act_num["hand"] = 1
    /\ Len(act["hand"]) = 1
    /\ ret.rec = Rec(2, -1, 0)

\* C5: DTrack and DTrack2, get_body/get_flystick/get_meatool/get_hand with an index
\* outside 0 .. count-1 (negative ones too) return the dummy record and do not
\* index the vector outside its bounds
C5_OnlyInRangeIndexed ==
    (/\ ret.op = "get"
     /\ kind \in {"DTrack", "DTrack2"}
     /\ ret.type \in BodyLike
     /\ ~(0 <= ret.id /\ ret.id < act_num[ret.type])) =>
        (ret.rec = Dummy(kind, ret.type, ret.id, -1) /\ ~ret.oob)

\* C6: every count member equals the length of its vector, in every state
\* from construction on
C6_CountEqualsLength == \A t \in Types : act_num[t] = Len(act[t])

\* a line of the datagram declares more groups than it supplies
IsShort(d) == \E t \in Types : Len(d[t].groups) < d[t].n

\* C9: a datagram with a line that declares N groups and supplies fewer makes
\* receive() return false with parseerror() set and replaces no frame; a datagram
\* that is accepted stores exactly the declared number of entries of each type
C9_ShortDatagramIsParseError ==
    [][(ret'.op = "receive" /\ ret'.ev.what = "datagram") =>
          IF IsShort(ret'.ev.data)
          THEN /\ ~ret'.ok
               /\ parseerror'
               /\ ~timeout' /\ ~udperror'
               /\ act' = act /\ act_num' = act_num /\ sdkFrame' = sdkFrame
          ELSE /\ ret'.ok
               /\ \A t \in Types :
                     /\ Len(act'[t]) = ret'.ev.data[t].n
                     /\ Len(sdkFrame'[t]) = ret'.ev.data[t].n
      ]_vars

\* "6d 2 [0 0.9]" was received by a DTrack object that held an empty frame
C9_Witness ==
    /\ kind = "DTrack"
    /\ valid
    /\ ret.op = "receive"
    /\ ret.ev = [what |-> "datagram", data |-> Datagram([t \in Types |-> IF t = "body" THEN 2 ELSE 0], 90, "body")]
    /\ ~ret.ok
    /\ parseerror
    /\ act = EmptyFrame
    /\ sdkFrame = EmptyFrame

\* C10: after a receive() that returned true none of timeout(), udperror(),
\* parseerror() is true; after one that returned false exactly one of them is
C10_RegisterFollowsReceive ==
    (ret.op = "receive") =>
        IF ret.ok
        THEN ~timeout /\ ~udperror /\ ~parseerror
        ELSE Cardinality({e \in {ERR_TIMEOUT, ERR_NET, ERR_PARSE} : lastDataError = e}) = 1
                /\ (timeout \/ udperror \/ parseerror)

\* C15: DTrack::get_marker(index) and DTrack2::get_marker(index) with an index
\* outside 0 .. num_marker-1 return a record with quality -1 whose id is the
\* requested index
C15_MarkerFallback ==
    (/\ ret.op = "get"
     /\ kind \in {"DTrack", "DTrack2"}
     /\ ret.type = "marker"
     /\ ~(0 <= ret.id /\ ret.id < act_num["marker"])) =>
        (ret.rec.quality = -1 /\ ret.rec.id = ret.id)

\* C16: the accessors of DTracklib (get_body, get_flystick, get_meatool, get_glove,
\* get_marker) with an index outside [0, count) return a record marked as not
\* tracked (quality -1) whose id is the requested index
C16_DTracklibFallback ==
    (/\ ret.op = "get"
     /\ kind = "DTracklib"
     /\ ~(0 <= ret.id /\ ret.id < act_num[ret.type])) =>
        (ret.rec.quality = -1 /\ ret.rec.id = ret.id)

\* the records the accessor of the wrapper at hand can return for index id
Accessed(t, id) == {r.rec : r \in WrapperGet(t, id, act_num[t], act[t])}

\* the parts of the copy every wrapper has in common: the count, the order, id,
\* quality and the common fields of every record; the accessors give record i
\* of the current frame for i in 0 .. count-1 and a dummy for i >= count
CopiedAlike(t) ==
    /\ act_num[t] = Len(sdkFrame[t])
    /\ Len(act[t]) = Len(sdkFrame[t])
    /\ \A i \in 1..Len(sdkFrame[t]) :
          /\ act[t][i].id = sdkFrame[t][i].id
          /\ act[t][i].quality = Float(sdkFrame[t][i].quality)
          /\ act[t][i].loc = Float(sdkFrame[t][i].loc)
          /\ Accessed(t, i - 1) = {act[t][i]}
    /\ \A id \in Ids :
          id >= Len(sdkFrame[t]) =>
              \A r \in Accessed(t, id) : r.quality \in {-1, 0} /\ r.loc = 0

AsyncLines ==
    {<<"dtrack2", "msg", "cam", "warning", f, "0x10", "hot">> : f \in {"1", "2"}}

\* synchronous replies: the acknowledgement, an error line, a specific answer
ReplyLines ==
    {<<"dtrack2", "ok">>, <<"dtrack2", "err", "5">>, <<"dtrack2", "set", "cam", "exp", "50">>}

\* the asynchronous-message grammar
SDKIsAsync(line) == Len(line) = 7 /\ line[1] = "dtrack2" /\ line[2] = "msg"

\* the device error code an error line carries
SDKErrorCode(line) == IF line[3] = "5" THEN 5 ELSE 1

\* sendDTrack2Command, the result for a synchronous reply: 1 for "dtrack2 ok",
\* 2 for "dtrack2 err <code>" (the code is kept), 0 for a specific answer
SDKReplyResult(line) ==
    IF line = <<"dtrack2", "ok">> THEN [result |-> 1, error |-> 0]
    ELSE IF Len(line) = 3 /\ line[2] = "err" THEN [result |-> 2, error |-> SDKErrorCode(line)]
    ELSE [result |-> 0, error |-> 0]

\* getLastDTrackErrorDescription: the text kept with the device error code
SDKErrorDescription(code) ==
    IF code = 0 THEN "no error" ELSE IF code = 5 THEN "error 5" ELSE "error 1"

\* getMessage: the oldest queued message, if there is one, is removed from the
\* queue and becomes the current message
SDKgetMessage_Peek(queue, cur) ==
    IF queue # <<>> THEN [ok |-> TRUE, queue |-> queue, cur |-> Head(queue)]
    ELSE [ok |-> FALSE, queue |-> queue, cur |-> cur]

SDKgetMessage(queue, cur) ==
    IF queue # <<>> THEN [ok |-> TRUE, queue |-> Tail(queue), cur |-> Head(queue)]
    ELSE [ok |-> FALSE, queue |-> queue, cur |-> cur]

\* one exchange at a time: a command is sent only from IDLE
SDKCanSend_Always == TRUE

SDKCanSend == exch = "IDLE"

(***************************************************************************)
(* DTrack2, command side                                                   *)
(***************************************************************************)

\* DTrack2::send_command: the string handed to sdk->sendDTrack2Command
DTrack2_send_command(command) == "dtrack2 " \o command

\* DTrack2::send_command: return (1 == sdk->sendDTrack2Command(...))
DTrack2_send_command_ret_ZeroIsSuccess(result) == (0 = result)

DTrack2_send_command_ret(result) == (1 = result)

\* DTrack2::set_parameter(parameter): send_command("set " + parameter)
DTrack2_set_parameter_NoSpace(parameter) == DTrack2_send_command("set" \o parameter)

DTrack2_set_parameter(parameter) == DTrack2_send_command("set " \o parameter)

\* DTrack2::set_parameter(category, name, value)
DTrack2_set_parameter3(category, name, value) ==
    DTrack2_set_parameter(category \o " " \o name \o " " \o value)

\* DTrack2::server_timeout / server_neterror / server_parseerror
server_timeout_TestsNet == lastServerError = ERR_NET

server_timeout == lastServerError = ERR_TIMEOUT

server_neterror == lastServerError = ERR_NET

server_parseerror == lastServerError = ERR_PARSE

\* DTrack2::get_lasterror(int&): return (0 != errorcode)
get_lasterror == lastDTrackError # 0

\* DTrack2::get_lasterror(int& errorcode):
\* errorcode = sdk->getLastDTrackError(); return (0 != errorcode);
DTrack2_get_lasterror_int(err, errorcode) == [ret |-> (0 # err), out |-> err]

\* DTrack2::get_lasterror(std::string& errorstring):
\* if (0 == sdk->getLastDTrackError()) return false;
\* errorstring = sdk->getLastDTrackErrorDescription(); return true;
DTrack2_get_lasterror_string_AlwaysAssigns(err, errorstring) ==
    [ret |-> (0 # err), out |-> SDKErrorDescription(err)]

DTrack2_get_lasterror_string(err, errorstring) ==
    IF 0 = err THEN [ret |-> FALSE, out |-> errorstring]
    ELSE [ret |-> TRUE, out |-> SDKErrorDescription(err)]

\* what the caller's variables hold when they are passed as output parameters
CallerInts == {7}
CallerStrings == {"stale"}

\* a command call enters sendDTrack2Command with the string text: the send fails
\* (NET_ERROR, the call is over) or the exchange awaits its reply
BeginExchange(call, args, text) ==
    /\ SDKCanSend
    /\ \E sent \in BOOLEAN :
          IF sent
          THEN /\ exch' = "AWAITING_REPLY"
               /\ outstanding' = Append(outstanding, text)
               /\ lastServerError' = lastServerError
               /\ cmd' = CmdCall(call, args, text, "awaiting", "none", 0, FALSE, <<>>)
          ELSE /\ exch' = "IDLE"
               /\ outstanding' = outstanding
               /\ lastServerError' = ERR_NET
               /\ cmd' = CmdCall(call, args, text, "done", "NET_ERROR", -11,
                                 DTrack2_send_command_ret(-11), <<>>)
    /\ lastDTrackError' = 0
    /\ UNCHANGED <<msgQueue, curMsg>>
    /\ UNCHANGED <<dataVars, appVars>>

Commands == {"tracking start", "tracking stop"}
Categories == {"cam", "output"}
Names == {"exp"}
Values == {"50", "on"}

send_command(command) ==
    BeginExchange("send_command", <<command>>, DTrack2_send_command(command))

set_parameter(category, name, value) ==
    BeginExchange("set_parameter", <<category, name, value>>,
                  DTrack2_set_parameter3(category, name, value))

\* a line that matches the asynchronous-message grammar arrives during the exchange
InboundAsync(line) ==
    /\ exch = "AWAITING_REPLY"
    /\ SDKIsAsync(line)
    /\ Len(msgQueue) < MaxQueue
    /\ msgQueue' = Append(msgQueue, line)
    /\ cmd' = [cmd EXCEPT !.lines = Append(@, line)]
    /\ UNCHANGED <<exch, outstanding, curMsg, lastServerError, lastDTrackError>>
    /\ UNCHANGED <<dataVars, appVars>>

\* the synchronous reply arrives: the exchange is MATCHED and the call returns
InboundReply(line) ==
    /\ exch = "AWAITING_REPLY"
    /\ ~SDKIsAsync(line)
    /\ LET r == SDKReplyResult(line)
       IN  /\ lastDTrackError' = r.error
           /\ cmd' = [cmd EXCEPT !.phase = "done", !.outcome = "MATCHED",
                                 !.result = r.result,
                                 !.ret = DTrack2_send_command_ret(r.result),
                                 !.lines = Append(@, line)]
    /\ exch' = "IDLE"
    /\ outstanding' = Tail(outstanding)
    /\ lastServerError' = ERR_NONE
    /\ UNCHANGED <<msgQueue, curMsg>>
    /\ UNCHANGED <<dataVars, appVars>>

\* the command timeout elapses without a synchronous reply
CommandTimeout ==
    /\ exch = "AWAITING_REPLY"
    /\ exch' = "IDLE"
    /\ outstanding' = Tail(outstanding)
    /\ lastServerError' = ERR_TIMEOUT
    /\ cmd' = [cmd EXCEPT !.phase = "done", !.outcome = "TIMED_OUT", !.result = -1,
                          !.ret = DTrack2_send_command_ret(-1)]
    /\ UNCHANGED <<msgQueue, curMsg, lastDTrackError>>
    /\ UNCHANGED <<dataVars, appVars>>

\* the connection breaks while the reply is awaited
CommandNetError ==
    /\ exch = "AWAITING_REPLY"
    /\ exch' = "IDLE"
    /\ outstanding' = Tail(outstanding)
    /\ lastServerError' = ERR_NET
    /\ cmd' = [cmd EXCEPT !.phase = "done", !.outcome = "NET_ERROR", !.result = -9,
                          !.ret = DTrack2_send_command_ret(-9)]
    /\ UNCHANGED <<msgQueue, curMsg, lastDTrackError>>
    /\ UNCHANGED <<dataVars, appVars>>

\* DTrack2::get_message: return sdk->getMessage(); one queued message becomes current
get_message ==
    /\ exch = "IDLE"
    /\ LET m == SDKgetMessage(msgQueue, curMsg)
       IN  /\ curMsg' = m.cur
           /\ msgQueue' = m.queue
           /\ cmd' = CmdCall("get_message", <<>>, "", "done", "none", 0, m.ok, <<>>)
    /\ UNCHANGED <<exch, outstanding, lastServerError, lastDTrackError>>
    /\ UNCHANGED <<dataVars, appVars>>

\* DTrack2::get_message_origin / _status / _framenr / _errorid / _msg:
\* the fields of the current message
get_message_origin == curMsg[3]

get_message_status == curMsg[4]

get_message_framenr == curMsg[5]

get_message_errorid == curMsg[6]

get_message_msg == curMsg[7]

\* DTrack2::get_lasterror(int&) called between two exchanges
get_lasterror_int(errorcode) ==
    /\ exch = "IDLE"
    /\ LET r == DTrack2_get_lasterror_int(lastDTrackError, errorcode)
       IN  caller' = Output("get_lasterror_int", errorcode, r.out, r.ret)
    /\ UNCHANGED <<dataVars, cmdVars, remote, rc, cli, fb, told, ex>>

\* DTrack2::get_lasterror(std::string&) called between two exchanges
get_lasterror_string(errorstring) ==
    /\ exch = "IDLE"
    /\ LET r == DTrack2_get_lasterror_string(lastDTrackError, errorstring)
       IN  caller' = Output("get_lasterror_string", errorstring, r.out, r.ret)
    /\ UNCHANGED <<dataVars, cmdVars, remote, rc, cli, fb, told, ex>>

\* a DTrack2 object with a bound data port, used for its command channel
InitCmd ==
    /\ kind = "DTrack2"
    /\ valid = TRUE
    /\ sdkFrame = EmptyFrame
    /\ lastDataError = ERR_NONE
    /\ act_num = [t \in Types |-> 0]
    /\ act = EmptyFrame
    /\ ret = NoCall
    /\ CmdIdle
    /\ AppIdle

NextCmd ==
    \/ \E c \in Commands : send_command(c)
    \/ \E c \in Categories, n \in Names, v \in Values : set_parameter(c, n, v)
    \/ \E line \in AsyncLines \cup ReplyLines : InboundAsync(line)
    \/ \E line \in AsyncLines \cup ReplyLines : InboundReply(line)
    \/ CommandTimeout
    \/ CommandNetError
    \/ get_message
    \/ \E errorcode \in CallerInts : get_lasterror_int(errorcode)
    \/ \E errorstring \in CallerStrings : get_lasterror_string(errorstring)

SpecCmd == InitCmd /\ [][NextCmd]_vars

(***************************************************************************)
(* Properties of the command side                                          *)
(***************************************************************************)

\* the asynchronous messages among the lines, in order of arrival
RECURSIVE AsyncOf(_)
AsyncOf(lines) ==
    IF lines = <<>> THEN <<>>
    ELSE IF lines[1][2] = "msg" THEN <<lines[1]>> \o AsyncOf(Tail(lines))
    ELSE AsyncOf(Tail(lines))

\* the last n elements of q
Suffix(q, n) == SubSeq(q, Len(q) - n + 1, Len(q))

\* a line arrives during the exchange of a command call
LineArrives ==
    /\ cmd.phase = "awaiting"
    /\ cmd'.call = cmd.call
    /\ Len(cmd'.lines) = Len(cmd.lines) + 1

\* C2: while an exchange awaits its reply, a line of the asynchronous-message
\* grammar is appended to the message queue and the exchange keeps waiting; the
\* first line of the synchronous-reply grammar resolves it (MATCHED, back to IDLE),
\* the call succeeds with that reply ("dtrack2 ok" gives true), and the messages
\* that arrived before it are all in the queue, in order of arrival
C2_AsyncThenReply ==
    [][LineArrives =>
          LET line == cmd'.lines[Len(cmd'.lines)]
          IN  IF line[2] = "msg"
              THEN /\ msgQueue' = Append(msgQueue, line)
                   /\ exch = "AWAITING_REPLY" /\ exch' = "AWAITING_REPLY"
                   /\ cmd'.phase = "awaiting"
                   /\ outstanding' = outstanding
              ELSE /\ exch = "AWAITING_REPLY" /\ exch' = "IDLE"
                   /\ cmd'.phase = "done" /\ cmd'.outcome = "MATCHED"
                   /\ cmd'.ret = (line = <<"dtrack2", "ok">>)
                   /\ outstanding' = <<>>
                   /\ msgQueue' = msgQueue
                   /\ Len(msgQueue') >= Len(cmd.lines)
                   /\ Suffix(msgQueue', Len(cmd.lines)) = AsyncOf(cmd'.lines)
      ]_vars

\* two asynchronous messages, then "dtrack2 ok": the call returned true and both
\* messages wait in the queue
C2_Witness ==
    /\ cmd.call = "send_command"
    /\ cmd.phase = "done"
    /\ cmd.outcome = "MATCHED"
    /\ cmd.ret
    /\ Len(cmd.lines) = 3
    /\ cmd.lines[1] # cmd.lines[2]
    /\ msgQueue = SubSeq(cmd.lines, 1, 2)
    /\ exch = "IDLE"

\* C3: an exchange that ends by the timeout (with no line or only asynchronous
\* messages received) returns failure, server_timeout() is true, nothing is left
\* outstanding and the next command call is accepted
C3_CommandTimeout ==
    (cmd.phase = "done" /\ cmd.outcome = "TIMED_OUT") =>
        /\ ~cmd.ret
        /\ server_timeout
        /\ ~server_neterror
        /\ exch = "IDLE"
        /\ outstanding = <<>>
        /\ \A l \in 1..Len(cmd.lines) : cmd.lines[l][2] = "msg"
        /\ ENABLED send_command("tracking start")

\* a call timed out after one asynchronous message had arrived
C3_Witness ==
    /\ cmd.phase = "done"
    /\ cmd.outcome = "TIMED_OUT"
    /\ Len(cmd.lines) = 1
    /\ msgQueue = cmd.lines
    /\ server_timeout

\* C7: set_parameter(category, name, value) hands "dtrack2 set <category> <name>
\* <value>" to the command exchange, returns true exactly when the exchange
\* result is 1 ("dtrack2 ok"), and then get_lasterror() reports no error code
C7_SetParameter ==
    (cmd.call = "set_parameter") =>
        /\ cmd.args = <<"cam", "exp", "50">> => cmd.sent = "dtrack2 set cam exp 50"
        /\ cmd.args = <<"cam", "exp", "on">> => cmd.sent = "dtrack2 set cam exp on"
        /\ cmd.args = <<"output", "exp", "50">> => cmd.sent = "dtrack2 set output exp 50"
        /\ cmd.args = <<"output", "exp", "on">> => cmd.sent = "dtrack2 set output exp on"
        /\ cmd.phase = "awaiting" => (outstanding = <<cmd.sent>>)
        /\ cmd.phase = "done" =>
              /\ cmd.ret <=> (cmd.result = 1)
              /\ cmd.ret <=> (cmd.outcome = "MATCHED" /\ cmd.lines[Len(cmd.lines)] = <<"dtrack2", "ok">>)
              /\ cmd.ret => ~get_lasterror

\* set_parameter("cam", "exp", "50") answered by "dtrack2 ok"
C7_Witness ==
    /\ cmd.call = "set_parameter"
    /\ cmd.args = <<"cam", "exp", "50">>
    /\ cmd.sent = "dtrack2 set cam exp 50"
    /\ cmd.phase = "done"
    /\ cmd.lines = << <<"dtrack2", "ok">> >>
    /\ cmd.ret
    /\ lastDTrackError = 0
    /\ lastServerError = ERR_NONE

\* C8: at most one request is unanswered on the channel, the channel awaits a
\* reply exactly while one is, and that request is the one of the call in progress
C8_OneExchange ==
    /\ Len(outstanding) <= 1
    /\ (exch = "AWAITING_REPLY") <=> (Len(outstanding) = 1)
    /\ (exch = "AWAITING_REPLY") => (cmd.phase = "awaiting" /\ outstanding[1] = cmd.sent)
    /\ (exch = "AWAITING_REPLY") => ~ENABLED send_command("tracking stop")

\* a second call began after the first had been answered
C8_Witness ==
    /\ exch = "AWAITING_REPLY"
    /\ outstanding = <<"dtrack2 tracking stop">>
    /\ lastDTrackError = 0
    /\ msgQueue # <<>>

\* C11: both overloads of get_lasterror return true exactly when the device error
\* code kept by the SDK is nonzero, which after a command is exactly when the
\* command was answered by an error line with a code, and never after a command
\* that succeeded; both overloads return the same boolean in the same state; the
\* string overload leaves the caller's string as it was when it returns false
C11_LastError ==
    [][(caller' # caller) =>
          /\ caller'.ret <=> (lastDTrackError # 0)
          /\ (cmd.call \in {"send_command", "set_parameter"}) =>
                /\ caller'.ret <=> (cmd.outcome = "MATCHED" /\ cmd.result = 2)
                /\ cmd.ret => ~caller'.ret
          /\ \A i \in CallerInts, str \in CallerStrings :
                DTrack2_get_lasterror_int(lastDTrackError, i).ret
                    = DTrack2_get_lasterror_string(lastDTrackError, str).ret
          /\ (caller'.call = "get_lasterror_string" /\ ~caller'.ret) =>
                caller'.after = caller'.before
          /\ (caller'.call = "get_lasterror_string" /\ caller'.ret) =>
                caller'.after = SDKErrorDescription(lastDTrackError)
          /\ (caller'.call = "get_lasterror_int") => caller'.after = lastDTrackError
      ]_vars

\* a command was answered "dtrack2 err 5" and the string overload returned true
\* with the description of error 5
C11_Witness ==
    /\ cmd.call = "set_parameter"
    /\ cmd.phase = "done"
    /\ cmd.result = 2
    /\ caller.call = "get_lasterror_string"
    /\ caller.ret
    /\ caller.after = "error 5"

\* C12: a get_message() call returns true exactly when a message is queued; it
\* then removes exactly one message, the oldest, and the getters read that one;
\* when it returns false nothing changes, so a polling loop with no arrivals ends
\* after as many true results as messages were queued; polling leaves the command,
\* data and device error registers and the exchange alone
C12_PollingDrains ==
    [][get_message =>
          /\ cmd'.ret <=> (msgQueue # <<>>)
          /\ cmd'.ret =>
                /\ Len(msgQueue') = Len(msgQueue) - 1
                /\ msgQueue = <<curMsg'>> \o msgQueue'
                /\ get_message_origin' = msgQueue[1][3]
                /\ get_message_status' = msgQueue[1][4]
                /\ get_message_framenr' = msgQueue[1][5]
                /\ get_message_errorid' = msgQueue[1][6]
                /\ get_message_msg' = msgQueue[1][7]
          /\ ~cmd'.ret => (msgQueue' = msgQueue /\ curMsg' = curMsg)
          /\ UNCHANGED <<lastServerError, lastDataError, lastDTrackError>>
          /\ UNCHANGED <<exch, outstanding>>
      ]_vars

\* the second of two queued messages was polled: it is the current one, the
\* first is gone, the queue is empty and the registers are as the command left them
C12_Witness ==
    /\ cmd.call = "get_message"
    /\ cmd.ret
    /\ msgQueue = <<>>
    /\ curMsg[5] = "2"
    /\ get_message_framenr = "2"
    /\ lastServerError = ERR_TIMEOUT

(***************************************************************************)
(* Remote control over UDP: DTrack::cmd_* and DTracklib::send.             *)
(* sdk->sendCommand(text) hands one command to the transport and returns   *)
(* whether it was sent; the result of every send is an input of the call.  *)
(***************************************************************************)

\* one sdk->sendCommand call: the text and what the call returned
Sent(text, ok) == [text |-> text, ok |-> ok]

\* what a remote-control function does: the flags after it, the sends, the result
Done(flags, sent, r) == [flags |-> flags, sent |-> sent, ret |-> r]

\* DTrack::cmd_cameras(onoff); ok[1], ok[2] are the results of the first and the
\* second sendCommand the call issues
DTrack_cmd_cameras_OutputFirst(isValid, flags, onoff, ok) ==
    IF ~isValid THEN Done(flags, <<>>, FALSE)
    ELSE LET f == [flags EXCEPT !.cameras = onoff]
         IN  IF f.cameras
             THEN IF f.tracking
                  THEN IF f.sending
                       THEN Done(f, <<Sent("dtrack 31", ok[1]), Sent("dtrack 10 3", ok[2])>>, ok[1])
                       ELSE Done(f, <<Sent("dtrack 10 3", ok[1])>>, TRUE)
                  ELSE Done(f, <<Sent("dtrack 10 1", ok[1])>>, TRUE)
             ELSE IF f.sending
                  THEN Done(f, <<Sent("dtrack 32", ok[1]), Sent("dtrack 10 0", ok[2])>>, ok[2])
                  ELSE Done(f, <<Sent("dtrack 10 0", ok[1])>>, ok[1])

DTrack_cmd_cameras(isValid, flags, onoff, ok) ==
    IF ~isValid THEN Done(flags, <<>>, FALSE)
    ELSE LET f == [flags EXCEPT !.cameras = onoff]
         IN  IF f.cameras
             THEN IF f.tracking
                  THEN IF f.sending
                       THEN Done(f, <<Sent("dtrack 10 3", ok[1]), Sent("dtrack 31", ok[2])>>, ok[2])
                       ELSE Done(f, <<Sent("dtrack 10 3", ok[1])>>, TRUE)
                  ELSE Done(f, <<Sent("dtrack 10 1", ok[1])>>, TRUE)
             ELSE IF f.sending
                  THEN Done(f, <<Sent("dtrack 32", ok[1]), Sent("dtrack 10 0", ok[2])>>, ok[2])
                  ELSE Done(f, <<Sent("dtrack 10 0", ok[1])>>, ok[1])

\* DTrack::cmd_tracking(onoff)
DTrack_cmd_tracking_NoValidTest(isValid, flags, onoff, ok) ==
    LET f == [flags EXCEPT !.tracking = onoff]
    IN  IF f.cameras
        THEN IF f.tracking
             THEN Done(f, <<Sent("dtrack 10 3", ok[1])>>, ok[1])
             ELSE Done(f, <<Sent("dtrack 10 1", ok[1])>>, ok[1])
        ELSE Done(f, <<>>, TRUE)

DTrack_cmd_tracking(isValid, flags, onoff, ok) ==
    IF ~isValid THEN Done(flags, <<>>, FALSE)
    ELSE LET f == [flags EXCEPT !.tracking = onoff]
         IN  IF f.cameras
             THEN IF f.tracking
                  THEN Done(f, <<Sent("dtrack 10 3", ok[1])>>, ok[1])
                  ELSE Done(f, <<Sent("dtrack 10 1", ok[1])>>, ok[1])
             ELSE Done(f, <<>>, TRUE)

\* DTrack::cmd_sending_data(onoff)
DTrack_cmd_sending_data_NoCameraTest(isValid, flags, onoff, ok) ==
    IF ~isValid THEN Done(flags, <<>>, FALSE)
    ELSE LET f == [flags EXCEPT !.sending = onoff]
         IN  IF f.sending
             THEN Done(f, <<Sent("dtrack 31", ok[1])>>, ok[1])
             ELSE Done(f, <<Sent("dtrack 32", ok[1])>>, ok[1])

DTrack_cmd_sending_data(isValid, flags, onoff, ok) ==
    IF ~isValid THEN Done(flags, <<>>, FALSE)
    ELSE LET f == [flags EXCEPT !.sending = onoff]
         IN  IF ~f.cameras THEN Done(f, <<>>, FALSE)
             ELSE IF f.sending
                  THEN Done(f, <<Sent("dtrack 31", ok[1])>>, ok[1])
                  ELSE Done(f, <<Sent("dtrack 32", ok[1])>>, ok[1])

\* DTrack::cmd_sending_fixed_data(frames)
DTrack_cmd_sending_fixed_data(isValid, flags, frames, ok) ==
    IF ~isValid THEN Done(flags, <<>>, FALSE)
    ELSE IF flags.cameras
         THEN Done(flags, <<Sent("dtrack 33 " \o ToString(frames), ok[1])>>, ok[1])
         ELSE Done(flags, <<>>, TRUE)

\* the command codes of DTracklib::send
DTRACKLIB_CMD_CAMERAS_OFF == 4096
DTRACKLIB_CMD_CAMERAS_ON == 4097
DTRACKLIB_CMD_CAMERAS_AND_CALC_ON == 4099
DTRACKLIB_CMD_SEND_DATA == 12544
DTRACKLIB_CMD_STOP_DATA == 12800
DTRACKLIB_CMD_SEND_N_DATA == 13056

DTracklibCmds ==
    {DTRACKLIB_CMD_CAMERAS_OFF, DTRACKLIB_CMD_CAMERAS_ON, DTRACKLIB_CMD_CAMERAS_AND_CALC_ON,
     DTRACKLIB_CMD_SEND_DATA, DTRACKLIB_CMD_STOP_DATA, DTRACKLIB_CMD_SEND_N_DATA}

\* DTracklib::send, the switch: the text after "dtrack " for a known code
DTracklib_send_text(c, val) ==
    IF c = DTRACKLIB_CMD_CAMERAS_OFF THEN "10 0"
    ELSE IF c = DTRACKLIB_CMD_CAMERAS_ON THEN "10 1"
    ELSE IF c = DTRACKLIB_CMD_CAMERAS_AND_CALC_ON THEN "10 3"
    ELSE IF c = DTRACKLIB_CMD_SEND_DATA THEN "31"
    ELSE IF c = DTRACKLIB_CMD_STOP_DATA THEN "32"
    ELSE "33 " \o ToString(val)

\* DTracklib::send(cmd, val): "default: return 0;", otherwise
\* "sdk->sendCommand(c.str()); return true;"
DTracklib_send(isValid, flags, c, val, ok) ==
    IF ~isValid THEN Done(flags, <<>>, FALSE)
    ELSE IF c \notin DTracklibCmds THEN Done(flags, <<>>, FALSE)
    ELSE Done(flags, <<Sent("dtrack " \o DTracklib_send_text(c, val), ok[1])>>, TRUE)

\* the results the sends of one call can have
SendResults == [1..2 -> BOOLEAN]

\* the frame counts and values passed with a command
Frames == {1, 10}

\* the command codes send() is called with: the six known ones and two others
SendCodes == DTracklibCmds \cup {0, 4098}

\* the commands about the data output: start, stop, send a number of frames
IsOutputCommand(text) ==
    text \in {"dtrack 31", "dtrack 32"} \cup {"dtrack 33 " \o ToString(n) : n \in Frames}

\* the last command about the data output after the sends of a call
RECURSIVE LastOutput(_, _)
LastOutput(old, sent) ==
    IF sent = <<>> THEN old
    ELSE LastOutput(IF IsOutputCommand(sent[1].text) THEN sent[1].text ELSE old, Tail(sent))

\* a remote-control call: the flags and the call record change, nothing else
Remote(call, arg, d) ==
    /\ remote' = d.flags
    /\ rc' = RemoteCall(call, arg, d.ret, d.sent)
    /\ told' = [output |-> LastOutput(told.output, d.sent),
                plain  |-> /\ told.plain
                           /\ valid
                           /\ call \in {"cmd_cameras", "cmd_tracking", "cmd_sending_data"}
                           /\ \A i \in 1..Len(d.sent) : d.sent[i].ok]
    /\ UNCHANGED <<dataVars, cmdVars, caller, cli, fb, ex>>

cmd_cameras(onoff) ==
    /\ kind = "DTrack"
    /\ \E ok \in SendResults :
          Remote("cmd_cameras", <<onoff>>, DTrack_cmd_cameras(valid, remote, onoff, ok))

cmd_tracking(onoff) ==
    /\ kind = "DTrack"
    /\ \E ok \in SendResults :
          Remote("cmd_tracking", <<onoff>>, DTrack_cmd_tracking(valid, remote, onoff, ok))

cmd_sending_data(onoff) ==
    /\ kind = "DTrack"
    /\ \E ok \in SendResults :
          Remote("cmd_sending_data", <<onoff>>,
                 DTrack_cmd_sending_data(valid, remote, onoff, ok))

cmd_sending_fixed_data(frames) ==
    /\ kind = "DTrack"
    /\ \E ok \in SendResults :
          Remote("cmd_sending_fixed_data", <<frames>>,
                 DTrack_cmd_sending_fixed_data(valid, remote, frames, ok))

send(c, val) ==
    /\ kind = "DTracklib"
    /\ \E ok \in SendResults :
          Remote("send", <<c, val>>, DTracklib_send(valid, remote, c, val, ok))

\* a DTrack or a DTracklib object, its data port bound or not, used for remote control
InitRemote ==
    /\ kind \in {"DTrack", "DTracklib"}
    /\ valid \in BOOLEAN
    /\ sdkFrame = EmptyFrame
    /\ lastDataError = ERR_NONE
    /\ act_num = [t \in Types |-> 0]
    /\ act = EmptyFrame
    /\ ret = NoCall
    /\ CmdIdle
    /\ AppIdle

NextRemote ==
    \/ \E onoff \in BOOLEAN : cmd_cameras(onoff)
    \/ \E onoff \in BOOLEAN : cmd_tracking(onoff)
    \/ \E onoff \in BOOLEAN : cmd_sending_data(onoff)
    \/ \E frames \in Frames : cmd_sending_fixed_data(frames)
    \/ \E c \in SendCodes, val \in Frames : send(c, val)

SpecRemote == InitRemote /\ [][NextRemote]_vars

(***************************************************************************)
(* Properties of the remote control                                        *)
(***************************************************************************)

\* every send of the last call succeeded
AllSent == \A i \in 1..Len(rc.sent) : rc.sent[i].ok

\* C13: cmd_cameras(onoff) returns true only if every command it sent in that
\* call was sent successfully, and false if any sendCommand of the call failed
C13_CmdCamerasReturn ==
    (rc.call = "cmd_cameras") =>
        /\ rc.ret => AllSent
        /\ ~AllSent => ~rc.ret

\* C14: DTracklib::send(cmd, val) returns true if and only if the command was
\* sent successfully; with an invalid data port or an unknown command code it
\* returns false and sends nothing; when sendCommand fails it returns false
C14_SendReturn ==
    (rc.call = "send") =>
        /\ (~valid \/ rc.arg[1] \notin DTracklibCmds) => (~rc.ret /\ rc.sent = <<>>)
        /\ rc.ret <=> (Len(rc.sent) = 1 /\ rc.sent[1].ok)

\* the positions in the sends of the last call at which text was sent
SentAt(text) == {i \in 1..Len(rc.sent) : rc.sent[i].text = text}

\* the last call sent a before b: both were sent, every a earlier than every b
SentBefore(a, b) ==
    /\ SentAt(a) # {}
    /\ SentAt(b) # {}
    /\ \A i \in SentAt(a), j \in SentAt(b) : i < j

\* the commands that start the data output
StartsOutput(text) == text \in {"dtrack 31"} \cup {"dtrack 33 " \o ToString(n) : n \in Frames}

\* C22: on a valid DTrack object, after any sequence of cmd_cameras, cmd_tracking
\* and cmd_sending_data calls whose sends all succeeded, whenever remoteCameras,
\* remoteTracking and remoteSending are all true the last command about the data
\* output that was sent is "dtrack 31"
C22_FlagsMeanSending ==
    (/\ kind = "DTrack" /\ valid /\ told.plain
     /\ remote.cameras /\ remote.tracking /\ remote.sending) =>
        (told.output = "dtrack 31")

\* C23: in DTrack::cmd_cameras on a valid object, switching on with the tracking
\* and sending flags set sends "dtrack 10 3" strictly before "dtrack 31", and
\* switching off with the sending flag set sends "dtrack 32" strictly before
\* "dtrack 10 0"
C23_CamerasOrdering ==
    (rc.call = "cmd_cameras" /\ valid) =>
        /\ (rc.arg = <<TRUE>> /\ remote.tracking /\ remote.sending) =>
               SentBefore("dtrack 10 3", "dtrack 31")
        /\ (rc.arg = <<FALSE>> /\ remote.sending) =>
               SentBefore("dtrack 32", "dtrack 10 0")

C23_Witness ==
    /\ rc.call = "cmd_cameras" /\ valid /\ rc.arg = <<TRUE>>
    /\ remote.tracking /\ remote.sending
    /\ Len(rc.sent) = 2

\* C24: a DTrack cmd_* call sends a command that starts the data output
\* ("dtrack 31", "dtrack 33 <n>") only with remoteCameras true, and while
\* remoteCameras is false cmd_tracking, cmd_sending_data and
\* cmd_sending_fixed_data send no command at all
C24_OutputNeedsCameras ==
    (kind = "DTrack") =>
        /\ (\E i \in 1..Len(rc.sent) : StartsOutput(rc.sent[i].text)) => remote.cameras
        /\ (/\ rc.call \in {"cmd_tracking", "cmd_sending_data", "cmd_sending_fixed_data"}
            /\ ~remote.cameras) => (rc.sent = <<>>)

C24_Witness ==
    /\ kind = "DTrack" /\ valid /\ ~remote.cameras
    /\ rc.call = "cmd_sending_data" /\ rc.arg = <<TRUE>>

\* C25: on an object whose data port could not be bound (valid() false) every
\* DTrack cmd_* call and DTracklib::send returns false, sends no command and
\* leaves remoteCameras, remoteTracking and remoteSending unchanged
C25_InvalidGuard ==
    [][(~valid) => (remote' = remote /\ ~rc'.ret /\ rc'.sent = <<>>)]_vars

C25_Witness ==
    /\ ~valid /\ kind = "DTrack"
    /\ rc.call = "cmd_tracking" /\ rc.arg = <<FALSE>>

(***************************************************************************)
(* DTrack2CLI (examples/DTrack2CLI.cpp).  The tool calls the DTrackSDK      *)
(* object directly; every call is one command exchange whose reply (a line, *)
(* or none within the timeout) is an input of the step.                     *)
(***************************************************************************)

\* no reply arrived within the timeout
NoReply == <<>>

\* the replies of the controller to the commands of the tool
CliReplies ==
    {NoReply, <<"dtrack2", "ok">>, <<"dtrack2", "err", "5">>, <<"dtrack2", "err", "1">>,
     <<"dtrack2", "set", "cam", "exp", "50">>}

\* the answers to "dtrack2 get status active": none, cal, mea, wait or err
StatusReplies ==
    {<<"dtrack2", "set", "status", "active", st>> : st \in {"none", "cal", "mea", "wait", "err"}}

\* getParam: succeeds with the value when the reply is the parameter's answer
SDKgetParam(reply) ==
    IF reply = NoReply THEN [success |-> FALSE, value |-> "", error |-> 0]
    ELSE LET r == SDKReplyResult(reply)
         IN  IF r.result = 0 /\ reply[2] = "set"
             THEN [success |-> TRUE, value |-> reply[Len(reply)], error |-> 0]
             ELSE [success |-> FALSE, value |-> "", error |-> r.error]

\* setParam, startMeasurement, stopMeasurement: succeed when the reply is "dtrack2 ok"
SDKsetParam(reply) ==
    IF reply = NoReply THEN [success |-> FALSE, error |-> 0]
    ELSE LET r == SDKReplyResult(reply)
         IN  [success |-> (r.result = 1), error |-> r.error]

\* sendDTrack2Command with an answer buffer: the result code and the device error
SDKsendDTrack2Command(reply) ==
    IF reply = NoReply THEN [result |-> -1, error |-> 0]
    ELSE SDKReplyResult(reply)

\* dtrack2_error_to_console: return dt->getLastDTrackError()
dtrack2_error_to_console(err) == err

\* get_dtrack2_parameter, set_dtrack2_parameter, send_dtrack2_command: 0 on
\* success, otherwise what dtrack2_error_to_console returns.
\* Result: [call, error (the SDK's register after the call), ret]
get_dtrack2_parameter(reply) ==
    LET g == SDKgetParam(reply)
    IN  [call |-> "getParam", error |-> g.error,
         ret |-> IF g.success THEN 0 ELSE dtrack2_error_to_console(g.error)]

set_dtrack2_parameter(reply) ==
    LET g == SDKsetParam(reply)
    IN  [call |-> "setParam", error |-> g.error,
         ret |-> IF g.success THEN 0 ELSE dtrack2_error_to_console(g.error)]

send_dtrack2_command(reply) ==
    LET g == SDKsendDTrack2Command(reply)
    IN  [call |-> "sendDTrack2Command", error |-> g.error,
         ret |-> IF g.result = 0 THEN 0 ELSE dtrack2_error_to_console(g.error)]

\* the line starts with the words of prefix followed by at least one more word
StartsWith(line, prefix) ==
    Len(line) > Len(prefix) /\ SubSeq(line, 1, Len(prefix)) = prefix

\* process_command: "get ", "dtrack2 get ", "set ", "dtrack2 set ", else a raw
\* command, which gets "dtrack2 " put in front when it does not start with it.
\* Result: [call, arg, error, ret]
process_command(line, reply) ==
    LET with(r, a) == [call |-> r.call, arg |-> a, error |-> r.error, ret |-> r.ret]
    IN  IF StartsWith(line, <<"get">>)
        THEN with(get_dtrack2_parameter(reply), SubSeq(line, 2, Len(line)))
        ELSE IF StartsWith(line, <<"dtrack2", "get">>)
        THEN with(get_dtrack2_parameter(reply), SubSeq(line, 3, Len(line)))
        ELSE IF StartsWith(line, <<"set">>)
        THEN with(set_dtrack2_parameter(reply), SubSeq(line, 2, Len(line)))
        ELSE IF StartsWith(line, <<"dtrack2", "set">>)
        THEN with(set_dtrack2_parameter(reply), SubSeq(line, 3, Len(line)))
        ELSE IF StartsWith(line, <<"dtrack2">>)
        THEN with(send_dtrack2_command(reply), line)
        ELSE with(send_dtrack2_command(reply), <<"dtrack2">> \o line)

\* the record of one SDK call in cli.calls
CliCall(line, c, reply) ==
    [line |-> line, call |-> c.call, arg |-> c.arg, reply |-> reply, ret |-> c.ret]

\* "if ((firstErrorInFile == 0) && errorOccured) firstErrorInFile = errorOccured;"
FirstError(first, errorOccured) ==
    IF first = 0 /\ errorOccured # 0 THEN errorOccured ELSE first

\* the lines of a command file or of standard input: an empty line and commands
CliLines ==
    {<<>>, <<"get", "status", "active">>, <<"dtrack2", "set", "cam", "exp", "50">>,
     <<"tracking", "start">>}

RECURSIVE SeqsUpTo(_, _)
SeqsUpTo(S, n) ==
    IF n = 0 THEN {<<>>}
    ELSE LET shorter == SeqsUpTo(S, n - 1)
         IN  shorter \cup {Append(q, x) : q \in shorter, x \in S}

CliInputs == SeqsUpTo(CliLines, MaxLines)

\* open_file and main (pipe mode), one turn of the while loop: getline gave a
\* line; open_file skips an empty one, main does not
cli_line(reply) ==
    /\ cli.pc = "loop"
    /\ cli.mode \in {"file", "pipe"}
    /\ cli.rest # <<>>
    /\ LET line == Head(cli.rest)
       IN  IF cli.mode = "file" /\ line = <<>>
           THEN /\ cli' = [cli EXCEPT !.rest = Tail(@)]
                /\ UNCHANGED lastDTrackError
           ELSE LET c == process_command(line, reply)
                IN  /\ cli' = [cli EXCEPT !.rest = Tail(@),
                                          !.calls = Append(@, CliCall(line, c, reply)),
                                          !.first = FirstError(@, c.ret)]
                    /\ lastDTrackError' = c.error
    /\ UNCHANGED <<exch, outstanding, msgQueue, curMsg, lastServerError, cmd>>
    /\ UNCHANGED <<dataVars, caller, remote, rc, fb, told, ex>>

\* open_file and main (pipe mode), after the loop.  open_file first returns the
\* result of dtrack2_error_to_console() when that is not 0, then firstErrorInFile;
\* main returns firstErrorInPipe
cli_end ==
    /\ cli.pc = "loop"
    /\ cli.mode \in {"file", "pipe"}
    /\ cli.rest = <<>>
    /\ LET errorOccured == dtrack2_error_to_console(lastDTrackError)
       IN  cli' = [cli EXCEPT !.pc = "done",
                              !.status = IF cli.mode = "file" /\ errorOccured # 0
                                         THEN errorOccured
                                         ELSE cli.first]
    /\ UNCHANGED <<dataVars, cmdVars, caller, remote, rc, fb, told, ex>>

\* one SDK call of start_measurement / stop_measurement
MeaCall(c, a, reply, r) == [line |-> <<>>, call |-> c, arg |-> a, reply |-> reply, ret |-> r]

\* start_measurement: getParam("status active"); when it succeeded and the
\* answer is neither "mea" nor "wait", startMeasurement().
\* q, r: the replies to the query and to the command.  Result: [calls, error, ret]
start_measurement(q, r) ==
    LET g == SDKgetParam(q)
        query == MeaCall("getParam", <<"status", "active">>, q, 0)
    IN  IF g.success
        THEN IF g.value # "mea" /\ g.value # "wait"
             THEN LET st == SDKsetParam(r)
                      e  == IF st.success THEN 0 ELSE dtrack2_error_to_console(st.error)
                  IN  [calls |-> <<query, MeaCall("startMeasurement", <<>>, r, e)>>,
                       error |-> st.error, ret |-> e]
             ELSE [calls |-> <<query>>, error |-> g.error, ret |-> 0]
        ELSE [calls |-> <<query>>, error |-> g.error,
              ret |-> dtrack2_error_to_console(g.error)]

\* stop_measurement: getParam("status active"); when it succeeded and the answer
\* is neither "none" nor "err", stopMeasurement()
stop_measurement(q, r) ==
    LET g == SDKgetParam(q)
        query == MeaCall("getParam", <<"status", "active">>, q, 0)
    IN  IF g.success
        THEN IF g.value # "none" /\ g.value # "err"
             THEN LET st == SDKsetParam(r)
                      e  == IF st.success THEN 0 ELSE dtrack2_error_to_console(st.error)
                  IN  [calls |-> <<query, MeaCall("stopMeasurement", <<>>, r, e)>>,
                       error |-> st.error, ret |-> e]
             ELSE [calls |-> <<query>>, error |-> g.error, ret |-> 0]
        ELSE [calls |-> <<query>>, error |-> g.error,
              ret |-> dtrack2_error_to_console(g.error)]

\* the replies to the status query: an answer, an error line or none
QueryReplies == StatusReplies \cup {NoReply, <<"dtrack2", "err", "5">>}

\* the replies to startMeasurement / stopMeasurement
CommandReplies == {NoReply, <<"dtrack2", "ok">>, <<"dtrack2", "err", "5">>}

\* an option of the command line: the calls made, the register, the status
CliOption(option, d) ==
    /\ cli.mode = "args"
    /\ cli.pc = "loop"
    /\ cli' = [cli EXCEPT !.input = <<option>>, !.calls = d.calls, !.status = d.ret,
                          !.pc = IF d.ret # 0 THEN "done" ELSE "loop"]
    /\ lastDTrackError' = d.error
    /\ UNCHANGED <<exch, outstanding, msgQueue, curMsg, lastServerError, cmd>>
    /\ UNCHANGED <<dataVars, caller, remote, rc, fb, told, ex>>

\* process_cmd_line_input, "-meastart"
cli_meastart(q, r) == CliOption("-meastart", start_measurement(q, r))

\* process_cmd_line_input, "-meastop"
cli_meastop(q, r) == CliOption("-meastop", stop_measurement(q, r))

\* the tool was started and is connected: with -f <file>, with commands on
\* standard input, or with options
InitCLI ==
    /\ kind = "DTrack2"
    /\ valid = TRUE
    /\ sdkFrame = EmptyFrame
    /\ lastDataError = ERR_NONE
    /\ act_num = [t \in Types |-> 0]
    /\ act = EmptyFrame
    /\ ret = NoCall
    /\ CmdIdle
    /\ caller = NoOutput
    /\ remote = RemoteFlags(FALSE, TRUE, TRUE)
    /\ rc = NoRemoteCall
    /\ fb = NoFeedback
    /\ told = NothingTold
    /\ ex = NoExample
    /\ \E m \in {"file", "pipe", "args"}, i \in CliInputs :
          /\ (m = "args") => (i = <<>>)
          /\ cli = CliRun(m, "loop", i, i, <<>>, 0, 0)

NextCLI ==
    \/ \E reply \in CliReplies : cli_line(reply)
    \/ cli_end
    \/ \E q \in QueryReplies, r \in CommandReplies : cli_meastart(q, r)
    \/ \E q \in QueryReplies, r \in CommandReplies : cli_meastop(q, r)

SpecCLI == InitCLI /\ [][NextCLI]_vars

(***************************************************************************)
(* Properties of DTrack2CLI                                                *)
(***************************************************************************)

\* the non-empty members of a sequence of lines, in order
RECURSIVE NonEmpty(_)
NonEmpty(lines) ==
    IF lines = <<>> THEN <<>>
    ELSE IF lines[1] = <<>> THEN NonEmpty(Tail(lines))
    ELSE <<lines[1]>> \o NonEmpty(Tail(lines))

\* the error code of the first call that failed with one, 0 if there is none
RECURSIVE FirstFailure(_)
FirstFailure(calls) ==
    IF calls = <<>> THEN 0
    ELSE IF calls[1].ret # 0 THEN calls[1].ret
    ELSE FirstFailure(Tail(calls))

\* the lines the calls were made for, in order
RECURSIVE LinesOf(_)
LinesOf(calls) ==
    IF calls = <<>> THEN <<>> ELSE <<calls[1].line>> \o LinesOf(Tail(calls))

\* C17: in the batch modes (-f <file>, standard input) a failing command does not
\* stop the run: every non-empty line is executed, in order, and the status
\* returned at the end is the error code of the first command that failed, 0 if
\* none failed
C17_BatchFirstError ==
    (cli.mode \in {"file", "pipe"} /\ cli.pc = "done") =>
        /\ NonEmpty(LinesOf(cli.calls)) = NonEmpty(cli.input)
        /\ cli.status = FirstFailure(cli.calls)

\* the SDK calls of the last option that sent a measurement command
SentStart == \E i \in 1..Len(cli.calls) : cli.calls[i].call = "startMeasurement"

SentStop == \E i \in 1..Len(cli.calls) : cli.calls[i].call = "stopMeasurement"

\* the status the query of the last option reported, "" when the query failed
Reported == SDKgetParam(cli.calls[1].reply).value

\* C18: -meastart sends the start command exactly when the query succeeded and
\* reported a status other than "mea" and "wait"; -meastop sends the stop command
\* exactly when the query succeeded and reported "mea" or "wait", so nothing for
\* none, cal and err; when the query fails neither command is sent
C18_MeasurementGuard ==
    (cli.mode = "args" /\ cli.calls # <<>>) =>
        /\ (cli.input = <<"-meastart">>) =>
              /\ SentStart <=> (Reported \in {"none", "cal", "err"})
              /\ ~SentStop
        /\ (cli.input = <<"-meastop">>) =>
              /\ SentStop <=> (Reported \in {"mea", "wait"})
              /\ ~SentStart

(***************************************************************************)
(* example_flystick_feedback                                               *)
(***************************************************************************)

\* the buttons a Flystick2+ reports in a frame: none, the trigger, the joystick
\* button, one or two of the upper buttons
ButtonSets == {{}, {0}, {5}, {1}, {2, 7}}

\* doFeedback: the vibration pattern of the pressed buttons, the later test wins
VibrationPattern(buttons) ==
    IF 7 \in buttons THEN 6
    ELSE IF 6 \in buttons THEN 5
    ELSE IF 4 \in buttons THEN 4
    ELSE IF 3 \in buttons THEN 3
    ELSE IF 2 \in buttons THEN 2
    ELSE IF 1 \in buttons THEN 1
    ELSE 0

\* doFeedback(flystickId) with the global sentFeedback: whether to continue, the
\* new value of sentFeedback, the feedback commands sent (none or one: its name,
\* the Flystick, the vibration pattern; the duration and frequency of a beep,
\* taken from the joystick, are left out)
doFeedback(sentFeedback, flystickId, buttons) ==
    IF 0 \in buttons
    THEN [cont |-> FALSE, sentFeedback |-> sentFeedback, sent |-> <<>>]
    ELSE IF 5 \in buttons
    THEN [cont |-> TRUE, sentFeedback |-> TRUE,
          sent |-> IF ~sentFeedback THEN <<<<"flystickBeep", flystickId, 0>>>> ELSE <<>>]
    ELSE IF VibrationPattern(buttons) > 0
    THEN [cont |-> TRUE, sentFeedback |-> TRUE,
          sent |-> IF ~sentFeedback
                   THEN <<<<"flystickVibration", flystickId, VibrationPattern(buttons)>>>>
                   ELSE <<>>]
    ELSE [cont |-> TRUE, sentFeedback |-> FALSE, sent |-> <<>>]

\* main, "for ( int id = 0; id < dt->getNumFlyStick(); id++ )": doFeedback for the
\* Flysticks id .. n-1 of the frame, in order
RECURSIVE FeedbackLoop(_, _, _, _)
FeedbackLoop(sentFeedback, id, n, frame) ==
    IF id >= n
    THEN [isRunning |-> TRUE, sentFeedback |-> sentFeedback, sent |-> <<>>]
    ELSE LET d    == doFeedback(sentFeedback, id, frame[id])
             rest == FeedbackLoop(d.sentFeedback, id + 1, n, frame)
         IN  [isRunning    |-> d.cont /\ rest.isRunning,
              sentFeedback |-> rest.sentFeedback,
              sent         |-> d.sent \o rest.sent]

\* a feedback button (1..7) of the Flystick is pressed
FeedbackPressed(buttons) == buttons \cap (1..7) # {}

\* the number of feedback commands in sent that address Flystick id
SentTo(sent, id) == Cardinality({i \in 1..Len(sent) : sent[i][2] = id})

\* the commands sent to a Flystick since its feedback buttons were last released
CountSends(count, frame, sent) ==
    [id \in DOMAIN count |->
        IF FeedbackPressed(frame[id])
        THEN Min(count[id] + SentTo(sent, id), MaxSends)
        ELSE 0]

\* main: one pass of "while ( isRunning )": receive() and, when it succeeded,
\* doFeedback for every Flystick of the frame (all have at least 8 buttons and 2
\* joystick values); the loop ends when no Flystick was found or a trigger was pressed
feedback_frame(received, frame) ==
    /\ fb.isRunning
    /\ IF received
       THEN LET l == FeedbackLoop(fb.sentFeedback, 0, fb.n, frame)
            IN  fb' = [fb EXCEPT !.sentFeedback = l.sentFeedback,
                                 !.isRunning = l.isRunning /\ fb.n > 0,
                                 !.frame = frame,
                                 !.sent = l.sent,
                                 !.count = CountSends(@, frame, l.sent)]
       ELSE fb' = [fb EXCEPT !.sent = <<>>]
    /\ UNCHANGED <<dataVars, cmdVars, caller, remote, rc, cli, told, ex>>

\* the example was started, the measurement runs, n Flysticks are configured
InitFeedback ==
    /\ kind = "DTrack2"
    /\ valid = TRUE
    /\ sdkFrame = EmptyFrame
    /\ lastDataError = ERR_NONE
    /\ act_num = [t \in Types |-> 0]
    /\ act = EmptyFrame
    /\ ret = NoCall
    /\ CmdIdle
    /\ caller = NoOutput
    /\ remote = RemoteFlags(FALSE, TRUE, TRUE)
    /\ rc = NoRemoteCall
    /\ cli = NoCli
    /\ told = NothingTold
    /\ ex = NoExample
    /\ \E n \in 0..MaxFly :
          fb = Feedback(FALSE, TRUE, n, [id \in 0..(n - 1) |-> {}], <<>>,
                        [id \in 0..(n - 1) |-> 0])

NextFeedback ==
    \E received \in BOOLEAN, frame \in [0..(fb.n - 1) -> ButtonSets] :
        feedback_frame(received, frame)

SpecFeedback == InitFeedback /\ [][NextFeedback]_vars

\* C20: as long as a feedback button (1..7) of a Flystick stays pressed over
\* consecutive received frames, at most one feedback command (flystickBeep or
\* flystickVibration) is sent for it, however many Flysticks a frame holds
C20_FeedbackDebounce ==
    \A id \in DOMAIN fb.count : fb.count[id] <= 1

(***************************************************************************)
(* DTracklib::receive, the button mask bt                                  *)
(***************************************************************************)

\* the controls a record of the SDK can carry: a button count up to MaxButtons and
\* value 1 at some of the positions 0, 1, 15 and MaxButtons - 1
ButtonControls(t) ==
    {IF t = "flystick" THEN Ctl(nb, b, 2, Joystick(0, 0)) ELSE MeaCtl(nb, b) :
        nb \in {0, 1, 2, MaxButtons - 2, MaxButtons - 1, MaxButtons},
        b \in SUBSET {0, 1, 15, MaxButtons - 1}}

\* a datagram with one tracked entity of type t whose controls are c
ButtonDatagram(t, c) ==
    [tt \in Types |->
        IF tt = t THEN [n |-> 1, groups |-> <<RecC(0, 90, 100, c)>>]
        ELSE [n |-> 0, groups |-> <<>>]]

ButtonEvents ==
    UNION {{[what |-> "datagram", data |-> ButtonDatagram(t, c)] : c \in ButtonControls(t)} :
              t \in Controlled}

\* a DTracklib object with a bound data port before its first receive()
InitButtons ==
    /\ kind = "DTracklib"
    /\ valid = TRUE
    /\ sdkFrame = EmptyFrame
    /\ lastDataError = ERR_NONE
    /\ act_num = [t \in Types |-> 0]
    /\ act = EmptyFrame
    /\ ret = NoCall
    /\ CmdIdle
    /\ AppIdle

NextButtons ==
    \E ev \in ButtonEvents \cup [what : {"timeout", "neterror"}, data : {<<>>}] :
        DTracklib_receive(ev)

SpecButtons == InitButtons /\ [][NextButtons]_vars

\* bit j of the mask bt
Bit(bt, j) == (bt \div (2 ^ j)) % 2

\* C26: after a successful DTracklib::receive(), for every flystick and
\* measurement tool, bit j of bt is set if and only if j < min(num_button, 16)
\* and button[j] of the SDK's record is 1; every bit at a position >=
\* min(num_button, 16) is 0
C26_ButtonMask ==
    (kind = "DTracklib" /\ ret.op = "receive" /\ ret.ok) =>
        \A t \in Controlled :
            \A i \in 1..Len(act[t]) :
                \A j \in 0..MaxButtons :
                    LET c == sdkFrame[t][i].ctl
                    IN  (Bit(act[t][i].ctl.bt, j) = 1) <=>
                            (j < Min(c.num_button, DTRACKLIB_FLYSTICK_MAX_BUTTON) /\ j \in c.button)

C26_Witness ==
    /\ kind = "DTracklib" /\ ret.op = "receive" /\ ret.ok
    /\ Len(act["meatool"]) = 1
    /\ sdkFrame["meatool"][1].ctl.num_button = MaxButtons
    /\ sdkFrame["meatool"][1].ctl.button = {0, 15, MaxButtons - 1}
    /\ act["meatool"][1].ctl.bt = Bits({0, 15})

(***************************************************************************)
(* The examples' main(): example_universal,                                *)
(* example_with_dtrack2_remote_control (DTrackSDK) and                     *)
(* DTrack2_example_with_remote_control (DTrack2)                           *)
(***************************************************************************)

\* "while ( count++ < 1000 )", "while(loop_count++ < 100)"
FRAMES_UNIVERSAL == 1000
FRAMES_REMOTE_CONTROL == 100

LoopLimit(prog) ==
    IF prog = "example_universal" THEN FRAMES_UNIVERSAL ELSE FRAMES_REMOTE_CONTROL

\* main, "measurement:" / "start measurement:": in communicating mode the start
\* command is sent; when it fails the program deletes the object and returns -4.
\* Result: whether the command was sent, whether it succeeded, where main goes on
example_main_start_IgnoresFailure(comm, ok) ==
    IF comm
    THEN [sent |-> TRUE, started |-> ok, pc |-> "loop"]
    ELSE [sent |-> FALSE, started |-> FALSE, pc |-> "loop"]

example_main_start(comm, ok) ==
    IF comm
    THEN [sent |-> TRUE, started |-> ok, pc |-> IF ok THEN "loop" ELSE "delete"]
    ELSE [sent |-> FALSE, started |-> FALSE, pc |-> "loop"]

\* a step of main() changes ex only
ExampleStep == UNCHANGED <<dataVars, cmdVars, caller, remote, rc, cli, fb, told>>

\* startMeasurement() / send_command("tracking start")
example_start(ok) ==
    /\ ex.pc = "start"
    /\ LET d == example_main_start(ex.comm, ok)
       IN  ex' = [ex EXCEPT !.pc = d.pc, !.started = d.started,
                            !.starts = IF d.sent THEN @ + 1 ELSE @]
    /\ ExampleStep

\* one pass of the receive loop: receive(), its result only chooses what is printed
example_receive(ok) ==
    /\ ex.pc = "loop"
    /\ ex.count < LoopLimit(ex.prog)
    /\ ex' = [ex EXCEPT !.count = @ + 1, !.received = @ + 1, !.ok = ok]
    /\ ExampleStep

\* after the loop: stopMeasurement() / send_command("tracking stop"), in
\* example_universal only if the command interface is valid
example_stop ==
    /\ ex.pc = "loop"
    /\ ex.count >= LoopLimit(ex.prog)
    /\ ex' = [ex EXCEPT !.pc = "delete", !.stops = IF ex.comm THEN @ + 1 ELSE @]
    /\ ExampleStep

\* delete dt; return
example_delete ==
    /\ ex.pc = "delete"
    /\ ex' = [ex EXCEPT !.pc = "exit", !.atDelete = ex.stops]
    /\ ExampleStep

\* an example past its initialisation checks; example_universal also runs in
\* listening mode, the remote-control examples need the command interface
InitExample ==
    /\ kind = "DTrack2"
    /\ valid = TRUE
    /\ sdkFrame = EmptyFrame
    /\ lastDataError = ERR_NONE
    /\ act_num = [t \in Types |-> 0]
    /\ act = EmptyFrame
    /\ ret = NoCall
    /\ CmdIdle
    /\ caller = NoOutput
    /\ remote = RemoteFlags(FALSE, TRUE, TRUE)
    /\ rc = NoRemoteCall
    /\ cli = NoCli
    /\ fb = NoFeedback
    /\ told = NothingTold
    /\ \E prog \in {"example_universal", "example_with_dtrack2_remote_control",
                    "DTrack2_example_with_remote_control"}, comm \in BOOLEAN :
          /\ (prog # "example_universal") => comm
          /\ ex = Example(prog, "start", comm, 0, 0, FALSE, 0, FALSE, 0, -1)

NextExample ==
    \/ \E ok \in BOOLEAN : example_start(ok)
    \/ \E ok \in BOOLEAN : example_receive(ok)
    \/ example_stop
    \/ example_delete

\* main() is sequential code and every SDK call returns after its timeout at the
\* latest, so a step that can be taken is taken
SpecExample == InitExample /\ [][NextExample]_vars /\ WF_vars(NextExample)

\* C21: in communicating mode a run whose start command succeeded makes
\* LoopLimit receive() calls, whatever they return, then sends the stop command
\* exactly once, and only then deletes the SDK object; a run whose start
\* command failed makes no receive() call and sends no stop command
C21_ExampleLifecycle ==
    /\ []((ex.starts > 0 /\ ~ex.started) => (ex.received = 0 /\ ex.stops = 0))
    /\ [](ex.stops <= 1 /\ ex.received <= LoopLimit(ex.prog))
    /\ []((ex.stops = 1) => (ex.started /\ ex.received = LoopLimit(ex.prog)))
    /\ []((ex.started /\ ex.atDelete # -1) => (ex.atDelete = 1))
    /\ (ex.started ~> (ex.pc = "exit" /\ ex.received = LoopLimit(ex.prog) /\ ex.stops = 1))

C21_Witness ==
    /\ ex.prog = "example_universal" /\ ex.pc = "exit" /\ ex.started
    /\ ex.received = FRAMES_UNIVERSAL /\ ~ex.ok
    /\ ex.stops = 1 /\ ex.atDelete = 1

====
